---------------------------- MODULE Spec2Model ----------------------------
(*************************************************************************)
(* Model of the portfolio backend (src/main.py, src/schemas.py):         *)
(* the bearer-token gate, the project endpoints over the document        *)
(* store, lazy seeding, and the now-playing proxy.                       *)
(*************************************************************************)
EXTENDS Integers, Sequences, FiniteSets

VARIABLES
    db,            \* TRUE iff the store handle is present (db is not None)
    ADMIN_TOKEN,   \* the configured secret, a sequence of characters
    projects,      \* db["project"]: the stored documents, in insertion order
    nextOid,       \* the counter of the store's next fresh ObjectId; it starts
                   \* at 10 (..0a), so that renderings hold a hex letter
    seedings,      \* how many times the seed loop of ensure_seed_projects ran
    req,           \* the request being answered
    resp,          \* its response
    creds,         \* SPOTIFY_CLIENT_ID, _CLIENT_SECRET, _REFRESH_TOKEN
    npPc,          \* where the now-playing request stands
    posts,         \* requests.post calls made for the now-playing request
    gets,          \* requests.get calls made for the now-playing request
    tokenResp,     \* what the token endpoint answered
    playResp,      \* what the currently-playing endpoint answered
    pc,            \* where each concurrent listing request stands
    count,         \* the count each concurrent listing request read
    seeded         \* the seed projects each of them has inserted so far

storeVars == <<db, ADMIN_TOKEN, projects, nextOid, seedings>>

spotifyVars == <<creds, npPc, posts, gets, tokenResp, playResp>>

listerVars == <<pc, count, seeded>>

vars == <<storeVars, req, resp, spotifyVars, listerVars>>

-----------------------------------------------------------------------------
(* Bounds *)

\* ObjectIds the store hands out in the sequential specification
MaxOids == 4

\* ObjectIds the store hands out while the gate is exercised
GateOids == 4

\* ObjectIds the store hands out while seeding is exercised
SeedOids == 8

\* ObjectIds the store hands out to concurrent listing requests
ConcOids == 9

-----------------------------------------------------------------------------
(* Python values *)

\* Optional[str]
None == [some |-> FALSE, v |-> <<>>]

Some(s) == [some |-> TRUE, v |-> s]

\* truthiness of an Optional[str]: None and "" are falsy
Truthy(o) == o.some /\ o.v # <<>>

\* str.lower() on one character (the letters the model's alphabet has)
LowerChar(c) ==
    CASE c = "B" -> "b"
      [] c = "E" -> "e"
      [] c = "A" -> "a"
      [] c = "R" -> "r"
      [] c = "S" -> "s"
      [] c = "F" -> "f"
      [] c = "C" -> "c"
      [] c = "D" -> "d"
      [] OTHER -> c

\* str.lower()
Lower(s) == [i \in 1..Len(s) |-> LowerChar(s[i])]

\* str.startswith(p)
StartsWith(s, p) == Len(s) >= Len(p) /\ SubSeq(s, 1, Len(p)) = p

\* s.split(" ", 1)[1]: the text after the first space (s holds a space)
SplitAfterFirstSpace(s) ==
    LET i == CHOOSE k \in 1..Len(s) :
                 s[k] = " " /\ \A j \in 1..(k-1) : s[j] # " "
    IN SubSeq(s, i + 1, Len(s))

bearer_ == <<"b", "e", "a", "r", "e", "r", " ">>

-----------------------------------------------------------------------------
(* Access gate *)

\* the token require_admin extracts from the Authorization header
ExtractToken(authorization) ==
    IF Truthy(authorization) /\ StartsWith(Lower(authorization.v), bearer_)
    THEN SplitAfterFirstSpace(authorization.v)
    ELSE <<>>

\* require_admin without its test that a secret is configured
require_admin_token_only(authorization) ==
    ExtractToken(authorization) = ADMIN_TOKEN

\* require_admin: TRUE iff it returns without raising HTTPException(401)
require_admin(authorization) ==
    LET token == ExtractToken(authorization)
    IN ~(ADMIN_TOKEN = <<>> \/ token # ADMIN_TOKEN)

-----------------------------------------------------------------------------
(* bson.ObjectId *)

\* hex digits in the 24-character rendering of an ObjectId
OidLen == 24

HexChars == {"0", "1", "2", "3", "4", "5", "6", "7", "8", "9",
             "a", "b", "c", "d", "e", "f", "A", "B", "C", "D", "E", "F"}

HexDigits == <<"0", "1", "2", "3", "4", "5", "6", "7", "8", "9",
               "a", "b", "c", "d", "e", "f">>

\* the value of one hex digit, either case
HexVal(c) ==
    CASE c = "A" -> 10 [] c = "B" -> 11 [] c = "C" -> 12
      [] c = "D" -> 13 [] c = "E" -> 14 [] c = "F" -> 15
      [] OTHER -> (CHOOSE k \in 1..16 : HexDigits[k] = c) - 1

\* is_valid without the length test
is_valid_any_length(s) == \A i \in 1..Len(s) : s[i] \in HexChars

\* ObjectId.is_valid(project_id) for a str: 24 hex digits
is_valid(s) == Len(s) = OidLen /\ \A i \in 1..Len(s) : s[i] \in HexChars

\* ObjectId(project_id): the identifier's value, digit by digit
ObjectId(s) == [i \in 1..Len(s) |-> HexVal(s[i])]

\* str(oid): the lower-case rendering
OidStr(oid) == [i \in 1..Len(oid) |-> HexDigits[oid[i] + 1]]

\* the n-th identifier the store generates
NewOid(n) ==
    [i \in 1..OidLen |->
        IF i = OidLen THEN n % 16
        ELSE IF i = OidLen - 1 THEN (n \div 16) % 16 ELSE 0]

-----------------------------------------------------------------------------
(* Project schema and seed data *)

\* Optional[str] fields of a document: {} is None, {u} is the string u
Project(name, description, stack, github, live, featured, order) ==
    [name |-> name, description |-> description, stack |-> stack,
     github |-> github, live |-> live, featured |-> featured, order |-> order]

SEED_PROJECTS == <<
    Project("Sarepay",
            "Multi-tenant payment processing system for merchants.",
            <<"PHP", "Laravel", "MySQL", "Redis", "Docker", "AWS">>,
            {"https://github.com/devwaleh/sarepay"}, {}, TRUE, 1),
    Project("Piper Backoffice",
            "Admin dashboard for transaction monitoring and settlements.",
            <<"Laravel", "MySQL", "Redis", "Tailwind">>,
            {"https://github.com/devwaleh/piper-backoffice"}, {}, TRUE, 2),
    Project("Gridman",
            "Distributed microservice for real-time wallet transactions.",
            <<"Node.js", "Express", "MongoDB", "Docker", "Microservices">>,
            {"https://github.com/devwaleh/gridman"}, {}, FALSE, 3),
    Project("Monitraka",
            "AI-powered transaction anomaly detector.",
            <<"Python", "FastAPI", "Scikit-learn", "Redis">>,
            {"https://github.com/devwaleh/monitraka"}, {}, FALSE, 4) >>

\* a stored document: the dumped model under the store-assigned _id
Document(oid, p) ==
    [_id |-> oid, name |-> p.name, description |-> p.description,
     stack |-> p.stack, github |-> p.github, live |-> p.live,
     featured |-> p.featured, order |-> p.order]

\* the schema fields of a stored document
Fields(d) ==
    Project(d.name, d.description, d.stack, d.github, d.live,
            d.featured, d.order)

\* ProjectOut(**i): the document with its id rendered as a string
ProjectOut(d) ==
    [id |-> OidStr(d._id), name |-> d.name, description |-> d.description,
     stack |-> d.stack, github |-> d.github, live |-> d.live,
     featured |-> d.featured, order |-> d.order]

-----------------------------------------------------------------------------
(* Document store *)

\* create_document("project", data) on the collection docs: the new collection
create_document(docs, n, data) == Append(docs, Document(NewOid(n), data))

\* the collection after inserting SEED_PROJECTS[1..k], ids n, n+1, ...
RECURSIVE InsertSeeds(_, _, _)
InsertSeeds(docs, n, k) ==
    IF k = 0 THEN docs
    ELSE create_document(InsertSeeds(docs, n, k - 1), n + k - 1,
                         SEED_PROJECTS[k])

\* find({}).sort("order", 1): ascending by order, ties in insertion order
RECURSIVE SortByOrder(_)
SortByOrder(docs) ==
    IF docs = <<>> THEN <<>>
    ELSE LET rest == SortByOrder(SubSeq(docs, 1, Len(docs) - 1))
             d == docs[Len(docs)]
             k == Cardinality({i \in 1..Len(rest) : rest[i].order <= d.order})
         IN SubSeq(rest, 1, k) \o <<d>> \o SubSeq(rest, k + 1, Len(rest))

\* the positions of the documents update_one / delete_one match on _id
Matches(docs, oid) == {i \in 1..Len(docs) : docs[i]._id = oid}

\* update_one with an empty filter: the first document is updated
UpdateOne_unfiltered(docs, oid, p) ==
    IF docs = <<>> THEN docs
    ELSE [docs EXCEPT ![1] = Document(docs[1]._id, p)]

\* update_one({"_id": oid}, {"$set": project.model_dump()}): the first match
\* gets the dumped fields, its _id stays
UpdateOne(docs, oid, p) ==
    LET m == Matches(docs, oid)
    IN IF m = {} THEN docs
       ELSE LET i == CHOOSE k \in m : \A j \in m : k <= j
            IN [docs EXCEPT ![i] = Document(docs[i]._id, p)]

\* delete_one({"_id": oid}): the first match is removed
DeleteOne(docs, oid) ==
    LET m == Matches(docs, oid)
    IN IF m = {} THEN docs
       ELSE LET i == CHOOSE k \in m : \A j \in m : k <= j
            IN SubSeq(docs, 1, i - 1) \o SubSeq(docs, i + 1, Len(docs))

-----------------------------------------------------------------------------
(* Requests *)

\* the two listing requests served at the same time
Listers == {"r1", "r2"}

Bearer == <<"B", "e", "a", "r", "e", "r">>

Secret == <<"s", "3">>

\* configured values of ADMIN_TOKEN: unset (the "" default) or set
Secrets == {<<>>, Secret, <<" ">> \o Secret}

\* a header carrying Secret, and the header being absent
GoodHeader == Some(Bearer \o <<" ">> \o Secret)

FewHeaders == {None, GoodHeader}

\* Authorization header values: absent, empty, and well- and ill-formed ones
Headers ==
    { None,
      Some(<<>>),
      GoodHeader,
      Some(Lower(Bearer) \o <<" ">> \o Secret),
      Some(<<"B", "E", "A", "R", "E", "R", " ">> \o Secret),
      Some(Bearer \o <<" ">> \o <<"S", "3">>),
      Some(Bearer \o <<" ", " ">> \o Secret),
      Some(Bearer \o <<" ">> \o Secret \o <<" ">>),
      Some(Bearer \o <<" ">>),
      Some(Bearer \o Secret),
      Some(<<"B", "a", "s", "i", "c", " ">> \o Secret),
      Some(Secret) }

\* the payload of create and update requests
NewProject ==
    Project("Portfolio", "This site.", <<"React", "FastAPI">>, {},
            {"https://example.com"}, FALSE, 0)

Payloads == {NewProject}

\* well-formed path parameters: the rendering of every identifier the store
\* can hand out and of one it never does
ValidIds(maxOids) == {OidStr(NewOid(n)) : n \in 10..(10 + maxOids)}

\* path parameters: the well-formed ones, an upper-case rendering of the
\* first, and a malformed one
ProjectIds(maxOids) ==
    ValidIds(maxOids)
    \cup { [OidStr(NewOid(10)) EXCEPT ![OidLen] = "A"],
           [OidStr(NewOid(10)) EXCEPT ![OidLen] = "g"] }

\* a few path parameters: the first two identifiers and two malformed ones
FewIds ==
    { OidStr(NewOid(10)), OidStr(NewOid(11)),
      [OidStr(NewOid(10)) EXCEPT ![OidLen] = "g"],
      SubSeq(OidStr(NewOid(10)), 2, OidLen) }

NoId == <<>>

Request(op, authorization, project_id, project) ==
    [op |-> op, authorization |-> authorization, project_id |-> project_id,
     project |-> project]

\* HTTPException(status_code, detail), and the framework's answer to an
\* exception no handler catches
HTTPException(status, detail) == [status |-> status, body |-> detail]

InternalServerError == [status |-> 500, body |-> "Internal Server Error"]

OK(body) == [status |-> 200, body |-> body]

-----------------------------------------------------------------------------
(* Handlers *)

\* the test taken as "fewer documents than seeds"
SeedNeeded_below_four(c) == c < 4

\* the test ensure_seed_projects makes on the count it read
SeedNeeded(c) == c = 0

\* ensure_seed_projects without the test on the count
ensure_seed_projects_always(docs, n) ==
    IF ~db THEN docs ELSE InsertSeeds(docs, n, Len(SEED_PROJECTS))

\* ensure_seed_projects(): the collection afterwards
ensure_seed_projects(docs, n) ==
    IF ~db THEN docs
    ELSE IF SeedNeeded(Len(docs)) THEN InsertSeeds(docs, n, Len(SEED_PROJECTS))
    ELSE docs

\* GET /api/projects
list_projects(maxOids) ==
    LET docs == ensure_seed_projects(projects, nextOid)
        inserted == Len(docs) - Len(projects)
    IN /\ nextOid + inserted <= 10 + maxOids
       /\ projects' = docs
       /\ nextOid' = nextOid + inserted
       /\ seedings' = IF inserted > 0 THEN seedings + 1 ELSE seedings
       /\ req' = Request("list", None, NoId, {})
       /\ resp' = IF ~db THEN InternalServerError
                  ELSE LET items == SortByOrder(docs)
                       IN OK([i \in 1..Len(items) |-> ProjectOut(items[i])])
       /\ UNCHANGED <<db, ADMIN_TOKEN, spotifyVars, listerVars>>

\* POST /api/projects; without a store handle create_document cannot insert
\* and the request fails
create_project(maxOids, authorization, project) ==
    /\ req' = Request("create", authorization, NoId, {project})
    /\ IF ~require_admin(authorization)
       THEN /\ resp' = HTTPException(401, "Unauthorized")
            /\ UNCHANGED <<projects, nextOid>>
       ELSE IF ~db
       THEN /\ resp' = InternalServerError
            /\ UNCHANGED <<projects, nextOid>>
       ELSE /\ nextOid < 10 + maxOids
            /\ projects' = create_document(projects, nextOid, project)
            /\ nextOid' = nextOid + 1
            /\ resp' = OK([_id |-> OidStr(NewOid(nextOid))])
    /\ UNCHANGED <<db, ADMIN_TOKEN, seedings, spotifyVars, listerVars>>

\* update_project without the test on matched_count
update_project_no_match_test(authorization, project_id, project) ==
    /\ req' = Request("update", authorization, project_id, {project})
    /\ IF ~require_admin(authorization)
       THEN /\ resp' = HTTPException(401, "Unauthorized")
            /\ UNCHANGED projects
       ELSE IF ~is_valid(project_id)
       THEN /\ resp' = HTTPException(400, "Invalid id")
            /\ UNCHANGED projects
       ELSE IF ~db
       THEN /\ resp' = InternalServerError
            /\ UNCHANGED projects
       ELSE /\ projects' = UpdateOne(projects, ObjectId(project_id), project)
            /\ resp' = OK([updated |-> TRUE])
    /\ UNCHANGED <<db, ADMIN_TOKEN, nextOid, seedings, spotifyVars, listerVars>>

\* PUT /api/projects/{project_id}
update_project(authorization, project_id, project) ==
    /\ req' = Request("update", authorization, project_id, {project})
    /\ IF ~require_admin(authorization)
       THEN /\ resp' = HTTPException(401, "Unauthorized")
            /\ UNCHANGED projects
       ELSE IF ~is_valid(project_id)
       THEN /\ resp' = HTTPException(400, "Invalid id")
            /\ UNCHANGED projects
       ELSE IF ~db
       THEN /\ resp' = InternalServerError
            /\ UNCHANGED projects
       ELSE /\ projects' = UpdateOne(projects, ObjectId(project_id), project)
            /\ resp' = IF Matches(projects, ObjectId(project_id)) = {}
                       THEN HTTPException(404, "Not found")
                       ELSE OK([updated |-> TRUE])
    /\ UNCHANGED <<db, ADMIN_TOKEN, nextOid, seedings, spotifyVars, listerVars>>

\* delete_project without the require_admin dependency
delete_project_ungated(authorization, project_id) ==
    /\ req' = Request("delete", authorization, project_id, {})
    /\ IF ~is_valid(project_id)
       THEN /\ resp' = HTTPException(400, "Invalid id")
            /\ UNCHANGED projects
       ELSE IF ~db
       THEN /\ resp' = InternalServerError
            /\ UNCHANGED projects
       ELSE /\ projects' = DeleteOne(projects, ObjectId(project_id))
            /\ resp' = IF Matches(projects, ObjectId(project_id)) = {}
                       THEN HTTPException(404, "Not found")
                       ELSE OK([deleted |-> TRUE])
    /\ UNCHANGED <<db, ADMIN_TOKEN, nextOid, seedings, spotifyVars, listerVars>>

\* DELETE /api/projects/{project_id}
delete_project(authorization, project_id) ==
    /\ req' = Request("delete", authorization, project_id, {})
    /\ IF ~require_admin(authorization)
       THEN /\ resp' = HTTPException(401, "Unauthorized")
            /\ UNCHANGED projects
       ELSE IF ~is_valid(project_id)
       THEN /\ resp' = HTTPException(400, "Invalid id")
            /\ UNCHANGED projects
       ELSE IF ~db
       THEN /\ resp' = InternalServerError
            /\ UNCHANGED projects
       ELSE /\ projects' = DeleteOne(projects, ObjectId(project_id))
            /\ resp' = IF Matches(projects, ObjectId(project_id)) = {}
                       THEN HTTPException(404, "Not found")
                       ELSE OK([deleted |-> TRUE])
    /\ UNCHANGED <<db, ADMIN_TOKEN, nextOid, seedings, spotifyVars, listerVars>>

-----------------------------------------------------------------------------
(* GET /api/projects, one store operation at a time *)

\* a listing request arrives and ensure_seed_projects tests the handle
list_begin(t) ==
    /\ pc[t] = "idle"
    /\ pc' = [pc EXCEPT ![t] = IF ~db THEN "find" ELSE "count"]
    /\ count' = [count EXCEPT ![t] = 0]
    /\ seeded' = [seeded EXCEPT ![t] = 0]
    /\ UNCHANGED <<storeVars, req, resp, spotifyVars>>

\* list_count without the test: the loop runs whatever was counted
list_count_untested(t) ==
    /\ pc[t] = "count"
    /\ count' = [count EXCEPT ![t] = Len(projects)]
    /\ pc' = [pc EXCEPT ![t] = "insert"]
    /\ seedings' = seedings + 1
    /\ UNCHANGED <<db, ADMIN_TOKEN, projects, nextOid, seeded, req, resp,
                   spotifyVars>>

\* count = db["project"].count_documents({}), and the test on it
list_count(t) ==
    /\ pc[t] = "count"
    /\ count' = [count EXCEPT ![t] = Len(projects)]
    /\ pc' = [pc EXCEPT ![t] = IF SeedNeeded(Len(projects))
                               THEN "insert" ELSE "find"]
    /\ seedings' = IF SeedNeeded(Len(projects)) THEN seedings + 1 ELSE seedings
    /\ UNCHANGED <<db, ADMIN_TOKEN, projects, nextOid, seeded, req, resp,
                   spotifyVars>>

\* one turn of the loop: create_document("project", ProjectSchema(**p))
list_insert(t, maxOids) ==
    /\ pc[t] = "insert"
    /\ nextOid < 10 + maxOids
    /\ projects' = create_document(projects, nextOid, SEED_PROJECTS[seeded[t] + 1])
    /\ nextOid' = nextOid + 1
    /\ seeded' = [seeded EXCEPT ![t] = seeded[t] + 1]
    /\ pc' = [pc EXCEPT ![t] = IF seeded[t] + 1 = Len(SEED_PROJECTS)
                               THEN "find" ELSE "insert"]
    /\ UNCHANGED <<db, ADMIN_TOKEN, seedings, count, req, resp, spotifyVars>>

\* db["project"].find({}).sort("order", 1) and the response
list_find(t) ==
    /\ pc[t] = "find"
    /\ pc' = [pc EXCEPT ![t] = "idle"]
    /\ req' = Request("list", None, NoId, {})
    /\ resp' = IF ~db THEN InternalServerError
               ELSE LET items == SortByOrder(projects)
                    IN OK([i \in 1..Len(items) |-> ProjectOut(items[i])])
    /\ UNCHANGED <<storeVars, count, seeded, spotifyVars>>

-----------------------------------------------------------------------------
(* Spotify now playing *)

\* a dict value that may be missing or null: {} is None, {x} is x
Get(opt, default) == IF opt = {} THEN default ELSE CHOOSE x \in opt : TRUE

\* an HTTP exchange: it raises (network error, timeout) or answers with a
\* status and a body
Raises == [raises |-> TRUE, status |-> 0, json |-> {}]

Answer(status, json) == [raises |-> FALSE, status |-> status, json |-> json]

NoAnswer == [raises |-> FALSE, status |-> -1, json |-> {}]

\* bodies: not JSON at all, JSON that is no object, or an object
Malformed == [valid |-> FALSE, isDict |-> FALSE, dict |-> {}]

NotAnObject == [valid |-> TRUE, isDict |-> FALSE, dict |-> {}]

Object(d) == [valid |-> TRUE, isDict |-> TRUE, dict |-> {d}]

\* what the token endpoint may answer
TokenBody(access_token) == Object([access_token |-> access_token])

TokenAnswers ==
    { Raises,
      Answer(400, {TokenBody({})}),
      Answer(500, {Malformed}),
      Answer(200, {Malformed}),
      Answer(200, {NotAnObject}),
      Answer(200, {TokenBody({})}),
      Answer(200, {TokenBody({<<>>})}),
      Answer(200, {TokenBody({<<"t", "o", "k">>})}),
      Answer(200, {TokenBody({<<"t", "o", "k", "2">>})}) }

\* what the currently-playing endpoint may answer
Artist(name) == [name |-> name]

Album(name, images) == [null |-> FALSE, name |-> name, images |-> images]

NullAlbum == [null |-> TRUE, name |-> {}, images |-> <<>>]

Item(name, artists, album, external_urls) ==
    [name |-> name, artists |-> artists, album |-> album,
     external_urls |-> external_urls]

PlayBody(is_playing, item) == Object([is_playing |-> is_playing, item |-> item])

Items ==
    { Item({"Song"}, <<Artist({"A"}), Artist({"B"})>>,
           Album({"LP"}, <<[url |-> {"u1"}], [url |-> {"u2"}]>>), {"link"}),
      Item({"Song"}, <<Artist({"A"})>>, Album({"LP"}, <<>>), {}),
      Item({"Song"}, <<Artist({"A"}), Artist({})>>, Album({"LP"}, <<>>), {}),
      Item({"Song"}, <<Artist({"A"})>>, NullAlbum, {"link"}),
      Item({}, <<>>, Album({}, <<[url |-> {}]>>), {}) }

PlayAnswers ==
    { Raises,
      Answer(204, {}),
      Answer(401, {Malformed}),
      Answer(429, {NotAnObject}),
      Answer(503, {}),
      Answer(200, {}),
      Answer(200, {Malformed}),
      Answer(200, {NotAnObject}),
      Answer(200, {PlayBody({}, {})}),
      Answer(200, {PlayBody({TRUE}, {})}) }
    \cup {Answer(200, {PlayBody(b, {it})}) : b \in {{}, {TRUE}, {FALSE}},
                                              it \in Items}

\* ", ".join(names)
RECURSIVE Join(_)
Join(names) ==
    IF Len(names) = 0 THEN <<>>
    ELSE IF Len(names) = 1 THEN <<names[1]>>
    ELSE <<names[1], ", ">> \o Join(Tail(names))

NotPlaying == [isPlaying |-> FALSE]

\* the three credentials are set and non-empty
CredentialsSet ==
    Truthy(creds.client_id) /\ Truthy(creds.client_secret)
        /\ Truthy(creds.refresh_token)

\* get_spotify_access_token(), given the token endpoint's answer: the token
\* or None; every exception is caught
AccessToken(answer) ==
    IF answer.raises THEN None
    ELSE IF answer.status = 200
    THEN LET body == Get(answer.json, Malformed)
         IN IF ~body.valid \/ ~body.isDict THEN None
            ELSE LET t == Get(body.dict, [access_token |-> {}]).access_token
                 IN IF t = {} THEN None ELSE Some(Get(t, <<>>))
    ELSE None

\* the body of now_playing's try block run on a 200 answer with an item:
\* it raises when an artist has no name or the album is null
ItemRaises(item) ==
    \/ \E i \in 1..Len(item.artists) : item.artists[i].name = {}
    \/ item.album.null

Playing(is_playing, item) ==
    [isPlaying |-> Get(is_playing, FALSE),
     title |-> item.name,
     artist |-> Join([i \in 1..Len(item.artists) |->
                         Get(item.artists[i].name, "")]),
     album |-> item.album.name,
     albumImageUrl |-> IF Len(item.album.images) > 0
                       THEN item.album.images[1].url ELSE {},
     songUrl |-> item.external_urls]

\* now_playing without its except clause: a raising call is a 500
PlayingResponse_uncaught(answer) ==
    IF answer.raises THEN InternalServerError
    ELSE IF answer.status # 200 THEN OK(NotPlaying)
    ELSE LET body == Get(answer.json, Malformed)
         IN IF ~body.valid \/ ~body.isDict THEN InternalServerError
            ELSE LET data == Get(body.dict, PlayBody({}, {}).dict)
                 IN IF data.item = {} THEN OK(NotPlaying)
                    ELSE LET item == Get(data.item, {})
                         IN IF ItemRaises(item) THEN InternalServerError
                            ELSE OK(Playing(data.is_playing, item))

\* now_playing() once it holds a token: the response, given the answer of
\* the currently-playing endpoint
PlayingResponse(answer) ==
    IF answer.raises THEN OK(NotPlaying)
    ELSE IF answer.status = 204 THEN OK(NotPlaying)
    ELSE IF answer.status # 200 THEN OK(NotPlaying)
    ELSE LET body == Get(answer.json, Malformed)
         IN IF ~body.valid \/ ~body.isDict THEN OK(NotPlaying)
            ELSE LET data == Get(body.dict, PlayBody({}, {}).dict)
                 IN IF data.item = {} THEN OK(NotPlaying)
                    ELSE LET item == Get(data.item, {})
                         IN IF ItemRaises(item) THEN OK(NotPlaying)
                            ELSE OK(Playing(data.is_playing, item))

\* GET /api/now-playing arrives; get_spotify_access_token checks the
\* credentials
now_playing_start ==
    /\ npPc \in {"idle", "done"}
    /\ req' = Request("now-playing", None, NoId, {})
    /\ posts' = 0
    /\ gets' = 0
    /\ tokenResp' = NoAnswer
    /\ playResp' = NoAnswer
    /\ IF CredentialsSet
       THEN npPc' = "token" /\ resp' = OK("pending")
       ELSE npPc' = "done" /\ resp' = OK(NotPlaying)
    /\ UNCHANGED <<storeVars, creds, listerVars>>

\* requests.post(token_url, ...) returns or raises
token_post(answer) ==
    /\ npPc = "token"
    /\ posts' = posts + 1
    /\ tokenResp' = answer
    /\ IF Truthy(AccessToken(answer))
       THEN npPc' = "play" /\ UNCHANGED resp
       ELSE npPc' = "done" /\ resp' = OK(NotPlaying)
    /\ UNCHANGED <<storeVars, creds, req, gets, playResp, listerVars>>

\* requests.get(.../currently-playing, ...) returns or raises
playing_get(answer) ==
    /\ npPc = "play"
    /\ gets' = gets + 1
    /\ playResp' = answer
    /\ resp' = PlayingResponse(answer)
    /\ npPc' = "done"
    /\ UNCHANGED <<storeVars, creds, req, posts, tokenResp, listerVars>>

-----------------------------------------------------------------------------
(* The API answering one request after another *)

NoRequest == Request("none", None, NoId, {})

Init ==
    /\ db \in BOOLEAN
    /\ ADMIN_TOKEN \in Secrets
    /\ projects = <<>>
    /\ nextOid = 10
    /\ seedings = 0
    /\ req = NoRequest
    /\ resp = OK("none")
    /\ creds = [client_id |-> Some(<<"i", "d">>),
                client_secret |-> Some(<<"s", "e", "c">>),
                refresh_token |-> Some(<<"r", "t">>)]
    /\ npPc = "idle"
    /\ posts = 0
    /\ gets = 0
    /\ tokenResp = NoAnswer
    /\ playResp = NoAnswer
    /\ pc = [t \in Listers |-> "idle"]
    /\ count = [t \in Listers |-> 0]
    /\ seeded = [t \in Listers |-> 0]

\* any one request, its inputs drawn from the given sets
API(maxOids, headers, putIds, delIds) ==
    \/ list_projects(maxOids)
    \/ \E a \in headers, p \in Payloads : create_project(maxOids, a, p)
    \/ \E a \in headers, i \in putIds, p \in Payloads :
           update_project(a, i, p)
    \/ \E a \in headers, i \in delIds : delete_project(a, i)

\* the store in use: few header values, every path parameter
AllIds == ProjectIds(MaxOids)

Next == API(MaxOids, FewHeaders, AllIds, AllIds)

Spec == Init /\ [][Next]_vars

\* the gate in use: every header value, few path parameters
NextGate == API(GateOids, Headers, FewIds, FewIds)

SpecGate == Init /\ [][NextGate]_vars

\* the renderings of the stored documents' ids
StoredIds == {OidStr(projects[i]._id) : i \in 1..Len(projects)}

\* seeding in the long run: authorized requests, updates of the first two
\* documents and deletions of any, while they are stored
NextSeed == API(SeedOids, {GoodHeader}, StoredIds \cap FewIds, StoredIds)

SpecSeed == Init /\ [][NextSeed]_vars

\* environment values of a credential: unset, empty, set
CredValues == {None, Some(<<>>), Some(<<"x">>)}

InitNow ==
    /\ db = TRUE
    /\ ADMIN_TOKEN = <<>>
    /\ projects = <<>>
    /\ nextOid = 10
    /\ seedings = 0
    /\ req = NoRequest
    /\ resp = OK("none")
    /\ creds \in [{"client_id", "client_secret", "refresh_token"} -> CredValues]
    /\ npPc = "idle"
    /\ posts = 0
    /\ gets = 0
    /\ tokenResp = NoAnswer
    /\ playResp = NoAnswer
    /\ pc = [t \in Listers |-> "idle"]
    /\ count = [t \in Listers |-> 0]
    /\ seeded = [t \in Listers |-> 0]

\* the now-playing proxy answering one request after another
NextNow ==
    \/ now_playing_start
    \/ \E a \in TokenAnswers : token_post(a)
    \/ \E a \in PlayAnswers : playing_get(a)

SpecNow == InitNow /\ [][NextNow]_vars

\* listing requests served concurrently (sync handlers run on the
\* framework's thread pool), interleaved at store operations
NextConc ==
    \E t \in Listers :
        \/ list_begin(t)
        \/ list_count(t)
        \/ list_insert(t, ConcOids)
        \/ list_find(t)

SpecConc == Init /\ [][NextConc]_vars

-----------------------------------------------------------------------------
(* Vocabulary of the properties *)

Gated == {"create", "update", "delete"}

\* the header is present and begins with "Bearer ", compared without case
HasBearerPrefix(h) ==
    /\ h.some
    /\ Len(h.v) >= 7
    /\ \A i \in 1..6 : LowerChar(h.v[i]) = LowerChar(Bearer[i])
    /\ h.v[7] = " "

\* the text after the header's first space
AfterFirstSpace(h) ==
    LET spaces == {k \in 1..Len(h.v) : h.v[k] = " "}
        first == CHOOSE k \in spaces : \A j \in spaces : k <= j
    IN SubSeq(h.v, first + 1, Len(h.v))

\* the three conditions under which the gate lets a request pass
Authorizes(h, secret) ==
    /\ secret # <<>>
    /\ HasBearerPrefix(h)
    /\ AfterFirstSpace(h) = secret

\* the path parameter names a stored project (hex digits in either case)
Stored(docs, id) == \E i \in 1..Len(docs) : OidStr(docs[i]._id) = Lower(id)

Ids(docs) == [i \in 1..Len(docs) |-> docs[i]._id]

\* the path parameter is a syntactically legal identifier: 24 hex digits
WellFormedId(id) ==
    /\ Len(id) = 24
    /\ {id[i] : i \in 1..Len(id)} \subseteq HexChars

-----------------------------------------------------------------------------
(* C1 *)

\* the header is missing, lacks the prefix, or carries another token, or no
\* secret is configured
Rejected(h, secret) ==
    \/ ~h.some
    \/ ~HasBearerPrefix(h)
    \/ AfterFirstSpace(h) # secret
    \/ secret = <<>>

\* C1: a create, update or delete request whose Authorization header is
\* missing, lacks the "Bearer " prefix or carries a token other than the
\* secret (any header when no secret is configured) is answered 401 and
\* leaves the project collection exactly as it was.
C1_UnauthorizedNoMutation ==
    [][(req'.op \in Gated /\ Rejected(req'.authorization, ADMIN_TOKEN))
         => (resp'.status = 401 /\ projects' = projects)]_vars

\* a delete of a stored project with a wrong-case token was refused
C1_Witness ==
    /\ req.op = "delete"
    /\ ADMIN_TOKEN = Secret
    /\ req.authorization = Some(Bearer \o <<" ", "S", "3">>)
    /\ Stored(projects, req.project_id)
    /\ resp.status = 401

-----------------------------------------------------------------------------
(* C2 *)

\* C2: the gate lets a create, update or delete request pass (no 401) if
\* and only if the secret is non-empty, the header is present and begins
\* with "Bearer " compared case-insensitively, and the text after the first
\* space equals the secret exactly.
C2_GateIff ==
    req.op \in Gated =>
        (resp.status # 401 <=> Authorizes(req.authorization, ADMIN_TOKEN))

\* a request with a lower-case prefix passed the gate
C2_Witness ==
    /\ req.op \in Gated
    /\ req.authorization = Some(Lower(Bearer) \o <<" ">> \o Secret)
    /\ resp.status # 401

-----------------------------------------------------------------------------
(* C3 *)

\* C3 as stated: an update or delete with a malformed id is answered 400
\* whether or not it passes the gate.
C3_AsStated ==
    (req.op \in {"update", "delete"} /\ ~WellFormedId(req.project_id))
        => resp.status = 400

\* C3 amended: an update or delete with a malformed id is answered 400 when
\* it passes the gate and 401 when it does not.
C3_InvalidIdAfterGate ==
    (req.op \in {"update", "delete"} /\ ~WellFormedId(req.project_id))
        => resp.status = IF Authorizes(req.authorization, ADMIN_TOKEN)
                         THEN 400 ELSE 401

\* an authorized update with a malformed id was answered 400
C3_Witness ==
    /\ req.op = "update"
    /\ ~WellFormedId(req.project_id)
    /\ Authorizes(req.authorization, ADMIN_TOKEN)
    /\ resp.status = 400

-----------------------------------------------------------------------------
(* C4 *)

\* the collection holds exactly the four seed projects, in order
IsSeedSet(docs) == [i \in 1..Len(docs) |-> Fields(docs[i])] = SEED_PROJECTS

\* C4: with the store available, a listing call on an empty collection
\* leaves exactly the four seed projects in it, and a listing call on a
\* non-empty collection inserts nothing.
C4_SeedOnceOnListing ==
    [][(req'.op = "list" /\ db)
         => IF projects = <<>> THEN IsSeedSet(projects')
            ELSE projects' = projects]_vars

\* a listing call answered with the four seeds, the only documents stored
C4_Witness ==
    /\ req.op = "list"
    /\ resp.status = 200
    /\ Len(resp.body) = 4
    /\ IsSeedSet(projects)
    /\ seedings = 1

-----------------------------------------------------------------------------
(* C5 *)

\* C5: with the store handle absent, a listing request succeeds with an
\* empty sequence.
C5_ListingDegrades ==
    (req.op = "list" /\ ~db) => (resp.status = 200 /\ Len(resp.body) = 0)

-----------------------------------------------------------------------------
(* C6 *)

-----------------------------------------------------------------------------
(* C8 *)

-----------------------------------------------------------------------------
(* C9 *)

UniqueIds(docs) ==
    \A i, j \in 1..Len(docs) : i # j => docs[i]._id # docs[j]._id

\* C9: no two stored projects share an id, and an update keeps every
\* record's id and leaves every record but the one it names as it was.
C9_IdsUniqueAndImmutable ==
    /\ []UniqueIds(projects)
    /\ [][req'.op = "update" =>
            /\ Ids(projects') = Ids(projects)
            /\ \A i \in 1..Len(projects) :
                  OidStr(projects[i]._id) # Lower(req'.project_id)
                      => projects'[i] = projects[i]]_vars

\* an update replaced the fields of the second of several stored projects
C9_Witness ==
    /\ req.op = "update"
    /\ resp.status = 200
    /\ Len(projects) >= 3
    /\ Fields(projects[2]) = NewProject
    /\ Fields(projects[1]) # NewProject

-----------------------------------------------------------------------------
(* C7 *)

\* some credential is unset (or empty)
CredentialUnset ==
    \E c \in DOMAIN creds : ~creds[c].some \/ creds[c].v = <<>>

\* the token endpoint's answer holds an access token
HasAccessToken(answer) ==
    /\ ~answer.raises
    /\ answer.status = 200
    /\ \E body \in answer.json :
          /\ body.valid
          /\ body.isDict
          /\ \E d \in body.dict : \E t \in d.access_token : t # <<>>

\* the currently-playing endpoint's answer is a 200 with an item
HasItem(answer) ==
    /\ ~answer.raises
    /\ answer.status = 200
    /\ \E body \in answer.json :
          body.valid /\ body.isDict /\ \E d \in body.dict : d.item # {}

\* an exception is raised while the item of a 200 answer is read
ReadingItemRaises(answer) ==
    \E body \in answer.json : \E d \in body.dict : \E it \in d.item :
        \/ it.album.null
        \/ \E i \in 1..Len(it.artists) : it.artists[i].name = {}

\* C7: a finished now-playing request has a successful response; the
\* response is exactly {isPlaying: false} when a credential is unset, the
\* token refresh failed, the playback call raised or answered anything but
\* a 200 with an item, or reading the item raised; the playback call is
\* made only after a token was obtained, and each external call is made at
\* most once.
C7_NowPlayingDegrades ==
    (req.op = "now-playing" /\ npPc = "done") =>
        /\ resp.status = 200
        /\ posts <= 1
        /\ gets <= 1
        /\ gets = 1 => (posts = 1 /\ HasAccessToken(tokenResp))
        /\ CredentialUnset => (posts = 0 /\ gets = 0)
        /\ ( \/ CredentialUnset
             \/ ~HasAccessToken(tokenResp)
             \/ ~HasItem(playResp)
             \/ ReadingItemRaises(playResp) ) => resp.body = NotPlaying

\* a request whose playback call answered 204 after a successful refresh
C7_Witness ==
    /\ req.op = "now-playing"
    /\ npPc = "done"
    /\ HasAccessToken(tokenResp)
    /\ playResp.status = 204
    /\ resp = OK(NotPlaying)

-----------------------------------------------------------------------------
(* C10 *)

\* how many stored documents carry the fields of the seed project p
Copies(p) == Cardinality({i \in 1..Len(projects) : Fields(projects[i]) = p})

\* C10: a concurrent listing request inserts seeds only after it counted
\* zero documents, but the count and the inserts are separate steps, so
\* every request that counted zero inserts its own copy: the collection
\* holds at most one copy of each seed per concurrent request (eight
\* documents for two requests), not at most four documents.
C10_SeedRace ==
    /\ \A t \in Listers : pc[t] = "insert" => (count[t] = 0 /\ seeded[t] < 4)
    /\ Len(projects) <= 4 * Cardinality(Listers)
    /\ \A i \in 1..Len(SEED_PROJECTS) :
          Copies(SEED_PROJECTS[i]) <= Cardinality(Listers)

\* both requests counted zero and both inserted the seed set: eight
\* documents, every seed twice
C10_Witness ==
    /\ Len(projects) = 8
    /\ \A t \in Listers : count[t] = 0 /\ seeded[t] = 4
    /\ \A i \in 1..Len(SEED_PROJECTS) : Copies(SEED_PROJECTS[i]) = 2

=============================================================================
